---------------------------- MODULE Spec2Model ----------------------------
(***************************************************************************)
(* Model of the pumpfun_sniper ingestion core: the reconnect loop          *)
(* (run_websocket), the picows listener callbacks (HeliusWSListener), the  *)
(* CreateEvent decoder and the match-and-dispatch path.                    *)
(*                                                                         *)
(* Text is modelled as sequences of code points, bytes as sequences of     *)
(* naturals in 0..255.  Python exceptions are modelled as result records   *)
(* with an "err" field.                                                    *)
(***************************************************************************)
EXTENDS Integers, Sequences, FiniteSets, TLC

(***************************************************************************)
(* Bounds of the model.                                                    *)
(***************************************************************************)
MaxTrades == 2
MaxPings == 2
MaxInbox == 3

(***************************************************************************)
(* Program constants.                                                      *)
(***************************************************************************)
\* asyncio.sleep(5) in run_websocket
RECONNECT_DELAY == 5
\* asyncio.sleep(10) in _ping_loop
PING_INTERVAL == 10
\* "if len(data) < 100" in _decode_create_event
MIN_EVENT_SIZE == 100
\* "if length > 1000" in _read_string
MAX_STRING_LENGTH == 1000
\* width of a public key in _decode_create_event
PUBKEY_SIZE == 32

\* Optional values: None is the empty tuple, a present value v is <<v>>
None == << >>
Some(v) == <<v>>
Value(x) == x[1]

\* "Program data: " as code points
PROGRAM_DATA_PREFIX ==
  <<80, 114, 111, 103, 114, 97, 109, 32, 100, 97, 116, 97, 58, 32>>

CREATE_EVENT_DISCRIMINATOR == <<27, 114, 169, 77, 222, 235, 99, 118>>

\* "123456789ABCDEFGHJKLMNPQRSTUVWXYZabcdefghijkmnopqrstuvwxyz" as code points
alphabet ==
  <<49, 50, 51, 52, 53, 54, 55, 56, 57,
    65, 66, 67, 68, 69, 70, 71, 72, 74, 75, 76, 77, 78, 80, 81, 82, 83, 84,
    85, 86, 87, 88, 89, 90,
    97, 98, 99, 100, 101, 102, 103, 104, 105, 106, 107, 109, 110, 111, 112,
    113, 114, 115, 116, 117, 118, 119, 120, 121, 122>>

(***************************************************************************)
(* Sequence helpers standing for Python slicing and str methods.           *)
(***************************************************************************)
\* data[a:b] with 0-based, end-exclusive indices, clipped like Python
Slice(data, a, b) ==
  LET hi == IF b > Len(data) THEN Len(data) ELSE b
  IN  IF a >= hi THEN << >> ELSE [i \in 1..(hi - a) |-> data[a + i]]

\* str.startswith
startswith(s, p) ==
  /\ Len(s) >= Len(p)
  /\ \A i \in 1..Len(p) : s[i] = p[i]

\* str.upper on the code points the model uses (ASCII; U+FFFD is unchanged)
upper(s) ==
  [i \in 1..Len(s) |-> IF s[i] >= 97 /\ s[i] <= 122 THEN s[i] - 32 ELSE s[i]]

IsSpace(c) == c \in {9, 10, 11, 12, 13, 32}

RECURSIVE lstrip(_)
lstrip(s) ==
  IF s # << >> /\ IsSpace(Head(s)) THEN lstrip(Tail(s)) ELSE s

RECURSIVE rstrip(_)
rstrip(s) ==
  IF s # << >> /\ IsSpace(s[Len(s)]) THEN rstrip(SubSeq(s, 1, Len(s) - 1))
  ELSE s

\* str.strip
strip(s) == rstrip(lstrip(s))

\* reversed(result) as a list
reversed(s) == [i \in 1..Len(s) |-> s[Len(s) + 1 - i]]

(***************************************************************************)
(* base64.b64decode(s) with the default validate=False: characters outside *)
(* the alphabet are discarded, a complete pad sequence ends the input, and *)
(* a dangling quantum raises binascii.Error.  A str argument holding a     *)
(* non-ASCII character raises ValueError.                                  *)
(***************************************************************************)
B64_PAD == 61

\* table_a2b_base64: the 6-bit value of a character, 64 for any other
b64value(c) ==
  IF c >= 65 /\ c <= 90 THEN c - 65
  ELSE IF c >= 97 /\ c <= 122 THEN c - 71
  ELSE IF c >= 48 /\ c <= 57 THEN c + 4
  ELSE IF c = 43 THEN 62
  ELSE IF c = 47 THEN 63
  ELSE 64

IsB64Char(c) == c = B64_PAD \/ b64value(c) < 64

IsB64Data(c) == c # B64_PAD

\* binascii.a2b_base64 in its non-strict mode.  The characters outside the
\* alphabet are skipped (f is what is left).  quad_pos at a character is the
\* number of data characters before it modulo 4; pads counts the "=" since
\* the last data character and only while quad_pos >= 2, so the pad sequence
\* is complete ("goto done") at the first "=" met with quad_pos 3, or with
\* quad_pos 2 right after another "=".  Input that ends inside a quantum
\* (quad_pos # 0) raises binascii.Error.
quad_pos(f, i) == Cardinality({j \in 1..(i - 1) : f[j] # B64_PAD}) % 4

\* the index of the "=" that completes the pad sequence, Len(f) + 1 if none
pad_done(f) ==
  IF \E i \in 1..Len(f) :
       /\ f[i] = B64_PAD
       /\ \/ quad_pos(f, i) = 3
          \/ quad_pos(f, i) = 2 /\ i > 1 /\ f[i - 1] = B64_PAD
  THEN CHOOSE i \in 1..Len(f) :
         /\ f[i] = B64_PAD
         /\ \/ quad_pos(f, i) = 3
            \/ quad_pos(f, i) = 2 /\ i > 1 /\ f[i - 1] = B64_PAD
         /\ \A j \in 1..(i - 1) :
              ~(/\ f[j] = B64_PAD
                /\ \/ quad_pos(f, j) = 3
                   \/ quad_pos(f, j) = 2 /\ j > 1 /\ f[j - 1] = B64_PAD)
  ELSE Len(f) + 1

\* byte j of the output, from the data characters d
b64byte(d, j) ==
  IF (j - 1) % 3 = 0
  THEN b64value(d[4 * ((j - 1) \div 3) + 1]) * 4
         + b64value(d[4 * ((j - 1) \div 3) + 2]) \div 16
  ELSE IF (j - 1) % 3 = 1
  THEN (b64value(d[4 * ((j - 1) \div 3) + 2]) % 16) * 16
         + b64value(d[4 * ((j - 1) \div 3) + 3]) \div 4
  ELSE (b64value(d[4 * ((j - 1) \div 3) + 3]) % 4) * 64
         + b64value(d[4 * ((j - 1) \div 3) + 4])

\* the bytes of n data characters
b64bytes(n) ==
  (n \div 4) * 3 + (IF n % 4 = 3 THEN 2 ELSE IF n % 4 = 2 THEN 1 ELSE 0)

\* d: the data characters before the end; padded: a pad sequence ended them
a2b_data(d, padded) ==
  IF ~padded /\ Len(d) % 4 # 0 THEN [err |-> TRUE, data |-> << >>]
  ELSE [err |-> FALSE, data |-> [j \in 1..b64bytes(Len(d)) |-> b64byte(d, j)]]

a2b_upto(f, end) ==
  a2b_data(SelectSeq(SubSeq(f, 1, end - 1), IsB64Data), end <= Len(f))

a2b_filtered(f) == a2b_upto(f, pad_done(f))

a2b_base64(s) == a2b_filtered(SelectSeq(s, IsB64Char))

b64decode(s) ==
  IF \E i \in 1..Len(s) : s[i] > 127
  THEN [err |-> TRUE, data |-> << >>]
  ELSE a2b_base64(s)

(***************************************************************************)
(* bytes.decode("utf-8", errors="replace") on the bytes the model feeds    *)
(* it: ASCII bytes decode to themselves, and a byte in 0x80..0xBF or       *)
(* 0xF8..0xFF can never start a sequence, so each one becomes U+FFFD.      *)
(***************************************************************************)
REPLACEMENT_CHARACTER == 65533

utf8_decode_replace(bytes) ==
  [i \in 1..Len(bytes) |->
     IF bytes[i] < 128 THEN bytes[i] ELSE REPLACEMENT_CHARACTER]

(***************************************************************************)
(* HeliusWSListener._bytes_to_pubkey.  Python's unbounded int is kept as   *)
(* its big-endian base-256 digits; divmod(num, 58) is long division.       *)
(***************************************************************************)
RECURSIVE divmod58(_, _, _, _)
\* divides the number with digits num[i..] and incoming remainder rem
divmod58(num, i, rem, quot) ==
  IF i > Len(num) THEN [quot |-> quot, rem |-> rem]
  ELSE LET cur == rem * 256 + num[i]
       IN  divmod58(num, i + 1, cur % 58, Append(quot, cur \div 58))

\* "while num": the integer is non-zero
IsNonZero(num) == \E i \in 1..Len(num) : num[i] # 0

RECURSIVE base58_digits(_, _)
\* the while loop: result.append(alphabet[rem]) until num is zero
base58_digits(num, result) ==
  IF ~IsNonZero(num) THEN result
  ELSE LET dm == divmod58(num, 1, 0, << >>)
       IN  base58_digits(dm.quot, Append(result, alphabet[dm.rem + 1]))

\* an encoder that adds nothing for the leading zero bytes
leading_zeros_ignored(data, i, result) == result

RECURSIVE leading_zeros(_, _, _)
\* the for loop: one "1" per leading zero byte
leading_zeros(data, i, result) ==
  IF i > Len(data) \/ data[i] # 0 THEN result
  ELSE leading_zeros(data, i + 1, Append(result, 49))

_bytes_to_pubkey(data) ==
  reversed(leading_zeros(data, 1, base58_digits(data, << >>)))

(***************************************************************************)
(* optimized.py: the encoder made of numba-compiled helpers.  An integer   *)
(* of a compiled helper is an int64: eight bytes, most significant first,  *)
(* in two's complement; what is shifted out at the top is lost.            *)
(***************************************************************************)
\* the size of the result array of _encode_base58_core
RESULT_SIZE == 44

\* "result = 0" as an int64
Int64Zero == [i \in 1..8 |-> 0]

\* (result << 8) | byte on an int64
shl8_or(result, byte) == Append(Tail(result), byte)

RECURSIVE _bytes_to_int(_, _, _)
\* the for loop of _bytes_to_int over data, from its byte i on
_bytes_to_int(data, i, result) ==
  IF i > Len(data) \/ result = << >> THEN result
  ELSE _bytes_to_int(data, i + 1, shl8_or(result, data[i]))

RECURSIVE _count_leading_zeros(_, _, _)
\* the for loop of _count_leading_zeros, with its break
_count_leading_zeros(data, i, count) ==
  IF i > Len(data) \/ data[i] # 0 THEN count
  ELSE _count_leading_zeros(data, i + 1, count + 1)

\* "num > 0" on an int64
int64_positive(num) == num[1] < 128 /\ IsNonZero(num)

RECURSIVE encode_digits(_, _, _)
\* the while loop of _encode_base58_core: result[idx] = rem; idx -= 1
encode_digits(num, result, idx) ==
  IF ~int64_positive(num) THEN [result |-> result, idx |-> idx]
  ELSE LET dm == divmod58(num, 1, 0, << >>)
       IN  encode_digits(dm.quot, [result EXCEPT ![idx + 1] = dm.rem],
                         idx - 1)

RECURSIVE encode_zeros(_, _, _)
\* the for loop of _encode_base58_core: result[idx] = 0; idx -= 1
encode_zeros(n, result, idx) ==
  IF n = 0 THEN [result |-> result, idx |-> idx]
  ELSE encode_zeros(n - 1, [result EXCEPT ![idx + 1] = 0], idx - 1)

\* _encode_base58_core: result[start:] and its length
_encode_base58_core(num, leading) ==
  LET digits == encode_digits(num, [i \in 1..RESULT_SIZE |-> 0],
                              RESULT_SIZE - 1)
      filled == encode_zeros(leading, digits.result, digits.idx)
      start == filled.idx + 1
  IN  [indices |-> Slice(filled.result, start, RESULT_SIZE),
       length |-> RESULT_SIZE - start]

\* bytes_to_pubkey_optimized: the alphabet characters of indices[:length]
bytes_to_pubkey_optimized(data) ==
  LET core == _encode_base58_core(_bytes_to_int(data, 1, Int64Zero),
                                  _count_leading_zeros(data, 1, 0))
  IN  [k \in 1..core.length |-> alphabet[core.indices[k] + 1]]

(***************************************************************************)
(* HeliusWSListener._read_string.                                          *)
(***************************************************************************)
\* struct.unpack_from("<I", data, offset)
unpack_u32_le(data, offset) ==
  data[offset + 1] + 256 * data[offset + 2]
    + 65536 * data[offset + 3] + 16777216 * (data[offset + 4] % 128)

\* the top bit of the length makes it at least 2^31
u32_top_bit(data, offset) == data[offset + 4] >= 128

\* a read that checks the declared length against the limit only
read_string_body_unchecked(data, off, length, huge) ==
  IF huge \/ length > MAX_STRING_LENGTH
  THEN [err |-> TRUE, string |-> << >>, offset |-> off]
  ELSE [err |-> FALSE,
        string |-> utf8_decode_replace(Slice(data, off, off + length)),
        offset |-> off + length]

\* the string of a length that has been read; off is the offset after the
\* length prefix
read_string_body(data, off, length, huge) ==
  IF huge \/ length > MAX_STRING_LENGTH \/ off + length > Len(data)
  THEN [err |-> TRUE, string |-> << >>, offset |-> off]
  ELSE [err |-> FALSE,
        string |-> utf8_decode_replace(Slice(data, off, off + length)),
        offset |-> off + length]

_read_string(data, offset) ==
  IF offset + 4 > Len(data)
  THEN [err |-> TRUE, string |-> << >>, offset |-> offset]
  ELSE read_string_body(data, offset + 4, unpack_u32_le(data, offset),
                        u32_top_bit(data, offset))

(***************************************************************************)
(* HeliusWSListener._decode_create_event: the body of the for loop for one *)
(* log line, then the loop.  "NotThisEvent" is a continue before the try   *)
(* block, "MalformedEvent" the except branch, "Event" the return.  The     *)
(* field "read" is the offset the try block had read up to when it ended.  *)
(***************************************************************************)
NoEvent(kind) ==
  [kind |-> kind, mint |-> << >>, name |-> << >>, symbol |-> << >>,
   uri |-> << >>, bonding_curve |-> << >>, user |-> << >>, read |-> 0]

\* the except branch, entered with the buffer read up to offset
Malformed(offset) == [NoEvent("MalformedEvent") EXCEPT !.read = offset]

\* a reader that takes the first key for the bonding curve and the second
\* for the mint
read_pubkeys_swapped(data, name, symbol, uri, offset) ==
  IF offset + 3 * PUBKEY_SIZE > Len(data) THEN Malformed(offset)
  ELSE [kind |-> "Event", read |-> offset + 3 * PUBKEY_SIZE,
        mint |->
          _bytes_to_pubkey(Slice(data, offset + PUBKEY_SIZE,
                                 offset + 2 * PUBKEY_SIZE)),
        name |-> name, symbol |-> symbol, uri |-> uri,
        bonding_curve |->
          _bytes_to_pubkey(Slice(data, offset, offset + PUBKEY_SIZE)),
        user |->
          _bytes_to_pubkey(Slice(data, offset + 2 * PUBKEY_SIZE,
                                 offset + 3 * PUBKEY_SIZE))]

\* the three pubkeys that follow the strings, from offset on
read_pubkeys(data, name, symbol, uri, offset) ==
  IF offset + PUBKEY_SIZE > Len(data) THEN Malformed(offset)
  ELSE IF offset + 2 * PUBKEY_SIZE > Len(data)
  THEN Malformed(offset + PUBKEY_SIZE)
  ELSE IF offset + 3 * PUBKEY_SIZE > Len(data)
  THEN Malformed(offset + 2 * PUBKEY_SIZE)
  ELSE [kind |-> "Event", read |-> offset + 3 * PUBKEY_SIZE,
        mint |-> _bytes_to_pubkey(Slice(data, offset, offset + PUBKEY_SIZE)),
        name |-> name, symbol |-> symbol, uri |-> uri,
        bonding_curve |->
          _bytes_to_pubkey(Slice(data, offset + PUBKEY_SIZE,
                                 offset + 2 * PUBKEY_SIZE)),
        user |->
          _bytes_to_pubkey(Slice(data, offset + 2 * PUBKEY_SIZE,
                                 offset + 3 * PUBKEY_SIZE))]

\* the try block: three strings from offset 8, then the pubkeys
read_uri(data, name, symbol, uri) ==
  IF uri.err THEN Malformed(uri.offset)
  ELSE read_pubkeys(data, name.string, symbol.string, uri.string, uri.offset)

read_symbol(data, name, symbol) ==
  IF symbol.err THEN Malformed(symbol.offset)
  ELSE read_uri(data, name, symbol, _read_string(data, symbol.offset))

read_name(data, name) ==
  IF name.err THEN Malformed(name.offset)
  ELSE read_symbol(data, name, _read_string(data, name.offset))

parse_create_event(data) == read_name(data, _read_string(data, 8))

\* the checks on the decoded bytes: minimum size, discriminator
decode_data(b64) ==
  IF b64.err THEN NoEvent("NotThisEvent")
  ELSE IF Len(b64.data) < MIN_EVENT_SIZE THEN NoEvent("NotThisEvent")
  ELSE IF Slice(b64.data, 0, 8) # CREATE_EVENT_DISCRIMINATOR
  THEN NoEvent("NotThisEvent")
  ELSE parse_create_event(b64.data)

decode_log(log) ==
  IF ~startswith(log, PROGRAM_DATA_PREFIX) THEN NoEvent("NotThisEvent")
  ELSE decode_data(b64decode(Slice(log, Len(PROGRAM_DATA_PREFIX), Len(log))))

\* what the loop does with the outcome r of one line: return the event, or
\* continue with the lines that are left
RECURSIVE _decode_create_event(_)
\* a loop that gives up at the first line it cannot parse
scan_next_abort(r, rest) ==
  IF r.kind = "Event" THEN r
  ELSE IF r.kind = "MalformedEvent" THEN NoEvent("None")
  ELSE _decode_create_event(rest)

\* the event of a later line where there is one, else that of this line
later_event_first(later, r) ==
  IF later.kind = "Event" THEN later
  ELSE IF r.kind = "Event" THEN r
  ELSE NoEvent("None")

\* a loop that goes on after an event and returns the last one it decodes
scan_next_last(r, rest) == later_event_first(_decode_create_event(rest), r)

scan_next(r, rest) ==
  IF r.kind = "Event" THEN r ELSE _decode_create_event(rest)

\* the first log line that decodes to an event; kind "None" is "return None"
_decode_create_event(logs) ==
  IF logs = << >> THEN NoEvent("None")
  ELSE scan_next(decode_log(Head(logs)), Tail(logs))

(***************************************************************************)
(* Construction of inbound payloads: the encoders the peer applies.  They  *)
(* build the inputs; the program never calls them.                         *)
(***************************************************************************)
\* a u32 as 4 little-endian bytes
pack_u32_le(n) ==
  <<n % 256, (n \div 256) % 256, (n \div 65536) % 256, n \div 16777216>>

\* a length-prefixed string of ASCII text
BorshString(s) == pack_u32_le(Len(s)) \o s

\* a CreateEvent buffer: discriminator, name, symbol, uri, then three keys
\* and any trailing bytes
CreateEventBytes(name, symbol, uri, mint, bonding_curve, user, trailing) ==
  CREATE_EVENT_DISCRIMINATOR \o BorshString(name) \o BorshString(symbol)
    \o BorshString(uri) \o mint \o bonding_curve \o user \o trailing

\* the character of a 6-bit value in the standard base64 alphabet
b64char(v) ==
  IF v < 26 THEN v + 65
  ELSE IF v < 52 THEN v + 71
  ELSE IF v < 62 THEN v - 4
  ELSE IF v = 62 THEN 43
  ELSE 47

\* standard base64 with "=" padding
b64encode(bytes) ==
  LET n == Len(bytes)
      at(k) == IF k <= n THEN bytes[k] ELSE 0
      char(j) ==
        LET g == 3 * ((j - 1) \div 4)
            r == (j - 1) % 4
        IN  IF r = 0 THEN b64char(at(g + 1) \div 4)
            ELSE IF r = 1
            THEN b64char((at(g + 1) % 4) * 16 + at(g + 2) \div 16)
            ELSE IF r = 2
            THEN IF g + 2 > n THEN B64_PAD
                 ELSE b64char((at(g + 2) % 16) * 4 + at(g + 3) \div 64)
            ELSE IF g + 3 > n THEN B64_PAD ELSE b64char(at(g + 3) % 64)
  IN  [j \in 1..(4 * ((n + 2) \div 3)) |-> char(j)]

\* the log line the program emits for an event buffer
ProgramDataLog(bytes) == PROGRAM_DATA_PREFIX \o b64encode(bytes)

(***************************************************************************)
(* config.py: the watch set read from the environment and the runtime one. *)
(***************************************************************************)
\* frozenset(s.strip().upper() for s in symbols if s.strip())
symbol_set(symbols) ==
  {upper(strip(symbols[i])) :
     i \in {j \in 1..Len(symbols) : strip(symbols[j]) # << >>}}

\* get_monitored_symbols()
get_monitored_symbols(runtime_symbols, env_symbols) ==
  IF runtime_symbols # None THEN Value(runtime_symbols) ELSE env_symbols

\* the default buy amount, in hundredths of a SOL
BUY_AMOUNT_SOL == 1

\* _runtime_buy_amounts[symbol.upper()] = amount; the dict is a set of
\* <<key, value>> pairs with one pair per key
set_buy_amount_for_symbol(buy_amounts, symbol, amount) ==
  {p \in buy_amounts : p[1] # upper(symbol)} \cup {<<upper(symbol), amount>>}

\* _runtime_buy_amounts.get(symbol.upper(), BUY_AMOUNT_SOL)
get_buy_amount_for_symbol(buy_amounts, symbol) ==
  IF \E p \in buy_amounts : p[1] = upper(symbol)
  THEN (CHOOSE p \in buy_amounts : p[1] = upper(symbol))[2]
  ELSE BUY_AMOUNT_SOL

(***************************************************************************)
(* HeliusWSListener._process_message and on_ws_frame as functions of the   *)
(* frame, the listener's watch set and the one fault the handler can meet: *)
(* loop.create_task raising.  A message is the JSON document as msgspec    *)
(* sees it: "valid" is whether it decodes against WebSocketMessage.        *)
(***************************************************************************)
\* msgspec.json.Decoder(WebSocketMessage).decode on a JSON document.  A
\* document is given by whether it parses as JSON and, for each field the
\* structs name, its value if it is there (a field that is missing or null
\* is None).  Fields without a default are required: without one of them
\* decode raises msgspec.ValidationError, a DecodeError.
NotDecoded == [valid |-> FALSE, result |-> None, params |-> None]

\* TransactionWrapper: transaction (with its message) and meta are required
wrapper_valid(wrapper) ==
  /\ wrapper.transaction # None
  /\ Value(wrapper.transaction).message # None
  /\ wrapper.meta # None

\* TransactionResult: signature and transaction are required
result_valid(result) ==
  /\ result.signature # None
  /\ result.transaction # None
  /\ wrapper_valid(Value(result.transaction))

\* Params: result is required
params_valid(params) ==
  \/ params = None
  \/ /\ Value(params).result # None
     /\ result_valid(Value(Value(params).result))

\* what _process_message reads of a decoded Params:
\* result.signature, result.transaction.meta.err and .logMessages
params_read(result, meta) ==
  [signature |-> Value(result.signature), err |-> meta.err,
   logMessages |-> meta.logMessages]

params_decoded(params) ==
  IF params = None THEN None
  ELSE Some(params_read(Value(Value(params).result),
                        Value(Value(Value(Value(params).result).transaction)
                                .meta)))

\* a decoder that fills in what is missing instead of raising
decoder_decode_lenient(doc) ==
  IF ~doc.parses THEN NotDecoded
  ELSE IF doc.params = None
  THEN [valid |-> TRUE, result |-> doc.result, params |-> None]
  ELSE IF Value(doc.params).result = None THEN NotDecoded
  ELSE IF Value(Value(doc.params).result).transaction = None THEN NotDecoded
  ELSE IF Value(Value(Value(doc.params).result).transaction).meta = None
  THEN NotDecoded
  ELSE [valid |-> TRUE, result |-> doc.result,
        params |->
          Some([signature |-> "sig",
                err |-> Value(Value(Value(Value(doc.params).result)
                                      .transaction).meta).err,
                logMessages |->
                  Value(Value(Value(Value(doc.params).result)
                                .transaction).meta).logMessages])]

\* self._decoder.decode(data)
decoder_decode(doc) ==
  IF ~doc.parses THEN NotDecoded
  ELSE IF ~params_valid(doc.params) THEN NotDecoded
  ELSE [valid |-> TRUE, result |-> doc.result,
        params |-> params_decoded(doc.params)]

\* no call of loop.create_task
NoBuy == << >>

\* what the handler did: how it returned, whether _decode_create_event was
\* called, the _execute_buy calls it scheduled, and whether an exception
\* left it
Handled(how, decoded, buys) ==
  [how |-> how, decoded |-> decoded, buys |-> buys, escaped |-> FALSE]

\* a match that compares the symbol as decoded, without upper()
dispatch_case_sensitive(token_info, monitored_symbols, fault) ==
  IF token_info.kind = "None" THEN Handled("no_event", TRUE, NoBuy)
  ELSE IF token_info.symbol \notin monitored_symbols
  THEN Handled("not_monitored", TRUE, NoBuy)
  ELSE IF fault THEN Handled("raised", TRUE, NoBuy)
  ELSE Handled("matched", TRUE,
               <<[mint |-> token_info.mint, symbol |-> token_info.symbol]>>)

\* the match of the decoded event against the watch set, then create_task
dispatch(token_info, monitored_symbols, fault) ==
  IF token_info.kind = "None" THEN Handled("no_event", TRUE, NoBuy)
  ELSE IF upper(token_info.symbol) \notin monitored_symbols
  THEN Handled("not_monitored", TRUE, NoBuy)
  ELSE IF fault THEN Handled("raised", TRUE, NoBuy)
  ELSE Handled("matched", TRUE,
               <<[mint |-> token_info.mint, symbol |-> token_info.symbol]>>)

\* tx_meta.logMessages or []
logs_or_empty(logMessages) ==
  IF logMessages = None THEN << >> ELSE Value(logMessages)

\* a handler that decodes the logs whatever "err" holds
_process_message_ignoring_err(msg, monitored_symbols, fault) ==
  IF ~msg.valid THEN Handled("non_parseable", FALSE, NoBuy)
  ELSE IF msg.result # None /\ msg.params = None
  THEN Handled("subscription_confirmed", FALSE, NoBuy)
  ELSE IF msg.params = None THEN Handled("no_params", FALSE, NoBuy)
  ELSE dispatch(_decode_create_event(
                  logs_or_empty(Value(msg.params).logMessages)),
                monitored_symbols, fault)

_process_message(msg, monitored_symbols, fault) ==
  IF ~msg.valid THEN Handled("non_parseable", FALSE, NoBuy)
  ELSE IF msg.result # None /\ msg.params = None
  THEN Handled("subscription_confirmed", FALSE, NoBuy)
  ELSE IF msg.params = None THEN Handled("no_params", FALSE, NoBuy)
  ELSE IF Value(msg.params).err # None THEN Handled("tx_error", FALSE, NoBuy)
  ELSE dispatch(_decode_create_event(
                  logs_or_empty(Value(msg.params).logMessages)),
                monitored_symbols, fault)

\* a frame handler without the except branch: the exception leaves it
log_exception_reraise(r) == [r EXCEPT !.escaped = (r.how = "raised")]

\* the except branch of on_ws_frame: the exception is logged
log_exception(r) ==
  IF r.how = "raised" THEN Handled("error_logged", r.decoded, NoBuy) ELSE r

\* on_ws_frame: only TEXT frames are processed
on_ws_frame(frame, monitored_symbols, fault) ==
  IF frame.msg_type # "TEXT" THEN Handled("not_text", FALSE, NoBuy)
  ELSE log_exception(_process_message(frame.payload, monitored_symbols, fault))

(***************************************************************************)
(* The inputs: environment values, command lines and inbound frames.       *)
(***************************************************************************)
\* str.split(",")
RECURSIVE split_from(_, _, _)
split_from(s, i, cur) ==
  IF i > Len(s) THEN <<cur>>
  ELSE IF s[i] = 44 THEN <<cur>> \o split_from(s, i + 1, << >>)
  ELSE split_from(s, i + 1, Append(cur, s[i]))

split(s) == split_from(s, 1, << >>)

\* "pepe", "PEPE", "PEPE2", "DOGE", "doge"
pepe == <<112, 101, 112, 101>>
PEPE == <<80, 69, 80, 69>>
PEPE2 == <<80, 69, 80, 69, 50>>
DOGE == <<68, 79, 71, 69>>
doge == <<100, 111, 103, 101>>

\* values of the MONITORED_SYMBOLS environment variable: "", "pepe",
\* " Pepe ,doge,"
EnvValues == {<< >>, pepe, <<32, 80, 101, 112, 101, 32, 44, 100, 111, 103, 101, 44>>}

\* values of the --symbol options, as async_main receives them
CliValues == {<< >>, <<doge>>}

\* the amounts of the --symbol options, in the order given: none
NoAmounts == << >>

\* what run passes to async_main for no option, "-s doge" and "-s pepe:5"
CliRuns ==
  {[symbols |-> << >>, amounts |-> NoAmounts],
   [symbols |-> <<doge>>, amounts |-> NoAmounts],
   [symbols |-> <<pepe>>, amounts |-> <<<<pepe, 5>>>>]}

\* the environment values the full specification draws from
RunEnvValues == {<< >>, pepe}

\* every watch set a listener can be given
WatchSets == {symbol_set(split(e)) : e \in EnvValues}

TokenName == <<84, 111, 107, 101, 110>>
TokenUri == <<104, 116, 116, 112, 115, 58, 47, 47, 120>>

ZeroKey == [i \in 1..PUBKEY_SIZE |-> 0]
OnesKey == [i \in 1..PUBKEY_SIZE |-> 255]
MixedKey == [i \in 1..PUBKEY_SIZE |-> IF i < 3 THEN 0 ELSE (i * 37) % 256]

\* a well-formed CreateEvent for a symbol and a mint key
EventBytes(symbol, mint) ==
  CreateEventBytes(TokenName, symbol, TokenUri, mint, OnesKey, MixedKey, << >>)

ValidLine(symbol, mint) == ProgramDataLog(EventBytes(symbol, mint))

\* "Program log: Instruction: Create"
NoPrefixLine == <<80, 114, 111, 103, 114, 97, 109, 32, 108, 111, 103, 58, 32, 73, 110, 115, 116, 114, 117, 99, 116, 105, 111, 110, 58, 32, 67, 114, 101, 97, 116, 101>>

\* "Program data: AAA": three data characters, b64decode raises
BadBase64Line == PROGRAM_DATA_PREFIX \o <<65, 65, 65>>

\* a buffer of 28 bytes that starts with the discriminator
ShortLine ==
  ProgramDataLog(CREATE_EVENT_DISCRIMINATOR \o [i \in 1..20 |-> 0])

\* a well-formed event whose first byte is not the discriminator's
WrongDiscriminatorLine ==
  ProgramDataLog(<<28>> \o Tail(EventBytes(pepe, MixedKey)))

\* discriminator, then a name that declares 1001 bytes, in 120 bytes
MalformedLine ==
  ProgramDataLog(CREATE_EVENT_DISCRIMINATOR \o pack_u32_le(1001)
                   \o [i \in 1..108 |-> 65])

Notification(err, logMessages) ==
  [msg_type |-> "TEXT",
   payload |-> [valid |-> TRUE, result |-> None,
                params |-> Some([signature |-> "sig", err |-> err,
                                 logMessages |-> logMessages])]]

Control(msg_type, valid, result) ==
  [msg_type |-> msg_type,
   payload |-> [valid |-> valid, result |-> result, params |-> None]]

\* JSON documents, field by field
JsonMeta(logMessages, err) == [logMessages |-> logMessages, err |-> err]

JsonTransaction == [message |-> Some("message")]

JsonWrapper(transaction, meta) == [transaction |-> transaction, meta |-> meta]

JsonResult(signature, transaction) ==
  [signature |-> signature, transaction |-> transaction]

JsonParams(result) == [result |-> result]

JsonDoc(parses, result, params) ==
  [parses |-> parses, result |-> result, params |-> params]

\* a transactionNotification with the given signature, inner transaction
\* and meta
JsonNotification(signature, transaction, meta) ==
  JsonDoc(TRUE, None,
          Some(JsonParams(Some(JsonResult(signature,
                                          Some(JsonWrapper(transaction,
                                                           meta)))))))

\* the meta of a successful transaction whose logs hold a valid "pepe" event
PepeMeta == Some(JsonMeta(Some(<<ValidLine(pepe, ZeroKey)>>), None))

\* a TEXT frame with a JSON document as its payload
Text(doc) == [msg_type |-> "TEXT", payload |-> decoder_decode(doc)]

\* the frames the peer sends
Inbound ==
  << \* 1: only the last line is a valid event ("pepe", zero mint)
     Notification(None, Some(<<NoPrefixLine, BadBase64Line, ShortLine,
                                WrongDiscriminatorLine, MalformedLine,
                                ValidLine(pepe, ZeroKey)>>)),
     \* 2: a failed transaction that carries a valid event for "pepe"
     Notification(Some("InstructionError"),
                  Some(<<ValidLine(pepe, ZeroKey)>>)),
     \* 3: the subscription confirmation
     Control("TEXT", TRUE, Some(1)),
     \* 4: a malformed line, then a valid event for "PEPE2"
     Notification(None, Some(<<MalformedLine, ValidLine(PEPE2, OnesKey)>>)),
     \* 5: two valid events, "DOGE" then "pepe"
     Notification(None, Some(<<ValidLine(DOGE, MixedKey),
                                ValidLine(pepe, ZeroKey)>>)),
     \* 6: two valid events for "PEPE" with different mints
     Notification(None, Some(<<ValidLine(PEPE, OnesKey),
                                ValidLine(PEPE, ZeroKey)>>)),
     \* 7: a notification without logMessages
     Notification(None, None),
     \* 8: a payload that does not decode
     Control("TEXT", FALSE, None),
     \* 9: an object with neither result nor params
     Control("TEXT", TRUE, None),
     \* 10: a binary frame
     Control("BINARY", FALSE, None),
     \* 11: a notification without signature, its logs hold a valid event
     Text(JsonNotification(None, Some(JsonTransaction), PepeMeta)),
     \* 12: a notification without meta
     Text(JsonNotification(Some("sig"), Some(JsonTransaction), None)),
     \* 13: params without result
     Text(JsonDoc(TRUE, None, Some(JsonParams(None)))),
     \* 14: a notification without the inner transaction
     Text(JsonNotification(Some("sig"), None, PepeMeta)),
     \* 15: a complete notification whose meta is {}
     Text(JsonNotification(Some("sig"), Some(JsonTransaction),
                           Some(JsonMeta(None, None)))),
     \* 16: {"jsonrpc": "2.0", "result": 1, "id": 1}
     Text(JsonDoc(TRUE, Some(1), None)),
     \* 17: text that is not JSON
     Text(JsonDoc(FALSE, None, None)),
     \* 18: a complete notification with a valid event for "pepe"
     Text(JsonNotification(Some("sig"), Some(JsonTransaction), PepeMeta)),
     \* 19: a complete notification that also has a result
     Text(JsonDoc(TRUE, Some(1),
                  Some(JsonParams(Some(JsonResult(
                    Some("sig"),
                    Some(JsonWrapper(Some(JsonTransaction), PepeMeta)))))))) >>

FrameIds == DOMAIN Inbound

\* the frames the full specification draws from
RunFrames == {1, 2, 3}

\* on_ws_frame tabulated over the inputs
FrameOutcome ==
  [i \in FrameIds, w \in WatchSets, fault \in BOOLEAN |->
     on_ws_frame(Inbound[i], w, fault)]

(***************************************************************************)
(* Inputs of the decoder on its own: buffers as base64.b64decode returns   *)
(* them, and keys.                                                         *)
(***************************************************************************)
\* the trailing bytes tried after a well-formed event: up to MaxTrailing
MaxTrailing == 3

\* "TKN"
TKN == <<84, 75, 78>>

CountKey == [i \in 1..PUBKEY_SIZE |-> i]

\* n times "A"
Filler(n) == [i \in 1..n |-> 65]

\* the smallest well-formed event: three empty strings and three keys
EmptyStringsEvent ==
  CreateEventBytes(<< >>, << >>, << >>, CountKey, OnesKey, MixedKey, << >>)

\* a well-formed event whose name ends at offset 102
LongNameEvent ==
  CreateEventBytes(Filler(90), TKN, TokenUri, CountKey, OnesKey, MixedKey,
                   << >>)

\* every buffer that stops before the end of one of the two events
ProperPrefixes ==
  {Slice(EmptyStringsEvent, 0, n) : n \in 0..(Len(EmptyStringsEvent) - 1)}
    \cup {Slice(LongNameEvent, 0, n) : n \in 0..(Len(LongNameEvent) - 1)}

\* a well-formed event with one byte of the discriminator changed
WrongDiscriminatorBuffers ==
  {[LongNameEvent EXCEPT ![j] = (@ + 1) % 256] : j \in 1..8}

\* events in which one string declares 1001 bytes and has them, and
\* buffers whose first length is 2^31 and 2^32 - 1
OverlongBuffers ==
  { CreateEventBytes(Filler(1001), TKN, TokenUri, CountKey, OnesKey,
                     MixedKey, << >>),
    CreateEventBytes(TokenName, Filler(1001), TokenUri, CountKey, OnesKey,
                     MixedKey, << >>),
    CreateEventBytes(TokenName, TKN, Filler(1001), CountKey, OnesKey,
                     MixedKey, << >>),
    CREATE_EVENT_DISCRIMINATOR \o <<0, 0, 0, 128>> \o Filler(200),
    CREATE_EVENT_DISCRIMINATOR \o <<255, 255, 255, 255>> \o Filler(200) }

\* an event whose name has exactly 1000 bytes
ExactLimitEvent ==
  CreateEventBytes(Filler(1000), TKN, TokenUri, CountKey, OnesKey, MixedKey,
                   << >>)

\* what follows the third key: nothing, some bytes, or one more string
Trailings ==
  {[i \in 1..n |-> 255] : n \in 0..MaxTrailing} \cup {BorshString(TKN)}

\* the fields of the well-formed events
WellFormedInputs ==
  [name : {TokenName, << >>}, symbol : {TKN, pepe}, uri : {TokenUri, << >>},
   keys : {<<CountKey, OnesKey, MixedKey>>, <<OnesKey, MixedKey, CountKey>>,
           <<MixedKey, CountKey, OnesKey>>},
   trailing : Trailings]

\* the buffer of each of them
WellFormed ==
  [t \in WellFormedInputs |->
     CreateEventBytes(t.name, t.symbol, t.uri, t.keys[1], t.keys[2],
                      t.keys[3], t.trailing)]

Buffers ==
  ProperPrefixes \cup WrongDiscriminatorBuffers \cup OverlongBuffers
    \cup {ExactLimitEvent} \cup {WellFormed[t] : t \in WellFormedInputs}

\* a key of k zero bytes followed by non-zero bytes
LeadingZeroKey(k) ==
  [i \in 1..PUBKEY_SIZE |-> IF i <= k THEN 0 ELSE 1 + ((i * 7) % 255)]

\* a key that is a small number: 31 zero bytes and one byte b
SmallKey(b) == [i \in 1..PUBKEY_SIZE |-> IF i < PUBKEY_SIZE THEN 0 ELSE b]

Keys ==
  {OnesKey, MixedKey, CountKey}
    \cup {LeadingZeroKey(k) : k \in 0..PUBKEY_SIZE}
    \cup {SmallKey(b) : b \in {1, 57, 58, 255}}
    \cup {[i \in 1..PUBKEY_SIZE |-> IF i <= 16 THEN 200 ELSE 0]}

(***************************************************************************)
(* The state.                                                              *)
(***************************************************************************)
VARIABLES
  MONITORED_SYMBOLS,   \* config.MONITORED_SYMBOLS, read from the environment
  _runtime_symbols,    \* config._runtime_symbols
  _runtime_buy_amounts, \* config._runtime_buy_amounts
  pc,                  \* where async_main / run_websocket stands
  sleepTimer,          \* what is left of asyncio.sleep(5)
  _monitored_symbols,  \* listener._monitored_symbols
  _transport,          \* listener._transport
  disconnected,        \* listener.disconnected (the asyncio.Event)
  _ping_task,          \* listener._ping_task
  ping_loop,           \* the _ping_loop task of the current listener
  stale,               \* unfinished _ping_loop tasks of earlier listeners
  peer,                \* the transport of the current listener
  transports,          \* transports that are connecting or open
  sent,                \* what was sent on the current transport
  tasks,               \* the _execute_buy tasks
  lastMsg,             \* the last frame handled and what the handler did
  latePings,           \* pings sent by a task after its connection closed
  attempts,            \* connect attempts since the last closure or failure
  elapsed,             \* time since the last closure or connect failure
  ended,               \* a connection has closed or a connect has failed
  buffer,              \* bytes handed to the decoder on their own, if any
  decode_result,       \* what the decoder made of buffer
  pubkey_bytes,        \* a key handed to _bytes_to_pubkey on its own, if any
  pubkey_text,         \* the text _bytes_to_pubkey made of pubkey_bytes
  pubkey_optimized,    \* the text bytes_to_pubkey_optimized made of it
  inbox,               \* the frames that arrived on the transport, in order
  handled,             \* how many of them the listener has been given
  pongs                \* the payloads of the pongs sent on the transport

config_vars == <<MONITORED_SYMBOLS, _runtime_symbols, _runtime_buy_amounts>>
listener_vars == <<_monitored_symbols, _transport, disconnected, _ping_task>>
conn_vars == <<pc, sleepTimer, listener_vars, ping_loop, stale, peer,
               transports, sent>>
history_vars == <<latePings, attempts, elapsed, ended>>
decoder_vars == <<buffer, decode_result, pubkey_bytes, pubkey_text,
                  pubkey_optimized>>
wire_vars == <<inbox, handled, pongs>>
vars == <<config_vars, conn_vars, tasks, lastMsg, history_vars, decoder_vars,
          wire_vars>>

NoTask == [state |-> "none", timer |-> 0]

NoMsg ==
  [frame |-> 0, how |-> "none", decoded |-> FALSE, buys |-> << >>,
   escaped |-> FALSE]

\* the process after the import of config, with the environment's watch set
ProcessInit(env_symbols) ==
  /\ MONITORED_SYMBOLS = env_symbols
  /\ _runtime_symbols = None
  /\ _runtime_buy_amounts = {}
  /\ pc = "main"
  /\ sleepTimer = 0
  /\ _monitored_symbols = {}
  /\ _transport = None
  /\ disconnected = FALSE
  /\ _ping_task = None
  /\ ping_loop = NoTask
  /\ stale = {}
  /\ peer = "none"
  /\ transports = 0
  /\ sent = << >>
  /\ tasks = << >>
  /\ lastMsg = NoMsg
  /\ latePings = 0
  /\ attempts = 0
  /\ elapsed = 0
  /\ ended = FALSE
  /\ inbox = << >>
  /\ handled = 0
  /\ pongs = << >>

\* the process at its start; the decoder is only run by the frame handler
InitWith(env_symbols) ==
  /\ ProcessInit(env_symbols)
  /\ buffer = None
  /\ decode_result = None
  /\ pubkey_bytes = None
  /\ pubkey_text = None
  /\ pubkey_optimized = None

Init == \E e \in RunEnvValues : InitWith(symbol_set(split(e)))

MsgInit == \E e \in EnvValues : InitWith(symbol_set(split(e)))

(***************************************************************************)
(* async_main: the runtime configuration, then run_websocket.              *)
(***************************************************************************)
\* set_runtime_symbols
set_runtime_symbols(symbols) == Some(symbol_set(symbols))

\* for symbol, amount in amounts.items(): set_buy_amount_for_symbol(...)
RECURSIVE set_buy_amounts(_, _)
set_buy_amounts(buy_amounts, amounts) ==
  IF amounts = << >> THEN buy_amounts
  ELSE set_buy_amounts(
         set_buy_amount_for_symbol(buy_amounts, Head(amounts)[1],
                                   Head(amounts)[2]),
         Tail(amounts))

async_main(symbols, amounts) ==
  /\ pc = "main"
  /\ _runtime_symbols' = IF symbols # << >> THEN set_runtime_symbols(symbols)
                         ELSE _runtime_symbols
  /\ _runtime_buy_amounts' =
       IF symbols # << >> THEN set_buy_amounts(_runtime_buy_amounts, amounts)
       ELSE _runtime_buy_amounts
  /\ pc' = "loop"
  /\ UNCHANGED <<decoder_vars, wire_vars>>
  /\ UNCHANGED <<MONITORED_SYMBOLS, sleepTimer, listener_vars, ping_loop,
                 stale, peer, transports, sent, tasks, lastMsg, history_vars>>

(***************************************************************************)
(* run_websocket: one iteration of "while True".                           *)
(***************************************************************************)
\* the watch set given to HeliusWSListener(...)
listener_symbols == MONITORED_SYMBOLS

Live(task) == task.state \notin {"none", "done"}

\* listener = HeliusWSListener(...) and the call of ws_connect
StartConnect ==
  /\ pc = "loop"
  /\ _monitored_symbols' = listener_symbols
  /\ _transport' = None
  /\ disconnected' = FALSE
  /\ _ping_task' = None
  /\ stale' = IF Live(ping_loop) THEN stale \cup {ping_loop} ELSE stale
  /\ ping_loop' = NoTask
  /\ peer' = "handshaking"
  /\ transports' = transports + 1
  /\ sent' = << >>
  /\ attempts' = attempts + 1
  /\ pc' = "connecting"
  /\ UNCHANGED <<decoder_vars, wire_vars>>
  /\ UNCHANGED <<config_vars, sleepTimer, tasks, lastMsg, latePings, elapsed,
                 ended>>

\* a loop without the except branch: the exception ends run_websocket
after_connect_error_uncaught == "terminated"

\* where run_websocket goes when ws_connect raises: the except branch, then
\* "Reconnecting in 5 seconds..."
after_connect_error == "sleeping"

\* ws_connect raises
ConnectFail ==
  /\ pc = "connecting"
  /\ peer = "handshaking"
  /\ peer' = "none"
  /\ transports' = transports - 1
  /\ pc' = after_connect_error
  /\ sleepTimer' = RECONNECT_DELAY
  /\ attempts' = 0
  /\ elapsed' = 0
  /\ ended' = TRUE
  /\ UNCHANGED <<decoder_vars, wire_vars>>
  /\ UNCHANGED <<config_vars, listener_vars, ping_loop, stale, sent, tasks,
                 lastMsg, latePings>>

\* a _subscribe that sends nothing
_subscribe_nothing(transport, out) == out

\* _subscribe: the request is sent if the transport is set
_subscribe(transport, out) ==
  IF transport # None THEN Append(out, "subscribe") ELSE out

\* on_ws_connected, called when the handshake is done
on_ws_connected ==
  /\ pc = "connecting"
  /\ peer = "handshaking"
  /\ peer' = "open"
  /\ _transport' = Some("transport")
  /\ sent' = _subscribe(_transport', sent)
  /\ _ping_task' = Some("task")
  /\ ping_loop' = [state |-> "created", timer |-> 0]
  /\ UNCHANGED <<decoder_vars, wire_vars>>
  /\ UNCHANGED <<config_vars, pc, sleepTimer, _monitored_symbols,
                 disconnected, stale, transports, tasks, lastMsg,
                 history_vars>>

\* ws_connect returns the transport
ConnectReturns ==
  /\ pc = "connecting"
  /\ peer \in {"open", "closed"}
  /\ pc' = "waiting"
  /\ UNCHANGED <<decoder_vars, wire_vars>>
  /\ UNCHANGED <<config_vars, sleepTimer, listener_vars, ping_loop, stale,
                 peer, transports, sent, tasks, lastMsg, history_vars>>

\* a loop that does not wait for the closure
wait_over_at_once == TRUE

\* what "await listener.disconnected.wait()" waits for
wait_over == disconnected

\* the wait is over: "Reconnecting in 5 seconds..."
Wake ==
  /\ pc = "waiting"
  /\ wait_over
  /\ pc' = "sleeping"
  /\ sleepTimer' = RECONNECT_DELAY
  /\ UNCHANGED <<decoder_vars, wire_vars>>
  /\ UNCHANGED <<config_vars, listener_vars, ping_loop, stale, peer,
                 transports, sent, tasks, lastMsg, history_vars>>

\* asyncio.sleep(5) returns
SleepDone ==
  /\ pc = "sleeping"
  /\ sleepTimer = 0
  /\ pc' = "loop"
  /\ UNCHANGED <<decoder_vars, wire_vars>>
  /\ UNCHANGED <<config_vars, sleepTimer, listener_vars, ping_loop, stale,
                 peer, transports, sent, tasks, lastMsg, history_vars>>

(***************************************************************************)
(* The keepalive task and the closure of the connection.                   *)
(***************************************************************************)
\* a cancel() that does nothing
cancel_ignored(task) == task

\* Task.cancel(): CancelledError is thrown into the task at its next step,
\* whether or not its sleep has already ended
cancel(task) ==
  IF Live(task) THEN [state |-> "cancelling", timer |-> 0] ELSE task

\* an on_ws_closed that leaves the ping task alone
on_ws_closed_ping_kept(ping_task, task) == task

\* what on_ws_closed does to the ping task
on_ws_closed_ping(ping_task, task) ==
  IF ping_task # None THEN cancel(task) ELSE task

\* an on_ws_closed that also cancels the trades that have not finished
on_ws_closed_cancels_trades ==
  /\ peer = "open"
  /\ peer' = "closed"
  /\ transports' = transports - 1
  /\ ping_loop' = on_ws_closed_ping(_ping_task, ping_loop)
  /\ disconnected' = TRUE
  /\ attempts' = 0
  /\ elapsed' = 0
  /\ ended' = TRUE
  /\ tasks' = [k \in 1..Len(tasks) |->
                 IF tasks[k].state \in {"created", "posting"}
                 THEN [tasks[k] EXCEPT !.state = "cancelled"]
                 ELSE tasks[k]]
  /\ UNCHANGED <<decoder_vars, wire_vars>>
  /\ UNCHANGED <<config_vars, pc, sleepTimer, _monitored_symbols, _transport,
                 _ping_task, stale, sent, lastMsg, latePings>>

\* on_ws_closed
on_ws_closed ==
  /\ peer = "open"
  /\ peer' = "closed"
  /\ transports' = transports - 1
  /\ ping_loop' = on_ws_closed_ping(_ping_task, ping_loop)
  /\ disconnected' = TRUE
  /\ attempts' = 0
  /\ elapsed' = 0
  /\ ended' = TRUE
  /\ UNCHANGED <<decoder_vars, wire_vars>>
  /\ UNCHANGED <<config_vars, pc, sleepTimer, _monitored_symbols, _transport,
                 _ping_task, stale, sent, tasks, lastMsg, latePings>>

\* one step of a _ping_loop task: the task it becomes and whether it pinged
ping_loop_step(task, transport) ==
  IF task.state = "cancelling"
  THEN [task |-> [state |-> "done", timer |-> 0], ping |-> FALSE]
  ELSE IF task.state = "created"
  THEN [task |-> [state |-> "sleeping", timer |-> PING_INTERVAL],
        ping |-> FALSE]
  ELSE [task |-> [state |-> "sleeping", timer |-> PING_INTERVAL],
        ping |-> transport # None]

Runnable(task) ==
  \/ task.state \in {"created", "cancelling"}
  \/ task.state = "sleeping" /\ task.timer = 0

Pings(out) == Len(SelectSeq(out, LAMBDA m : m = "ping"))

\* the current listener's _ping_loop runs
PingLoop ==
  /\ pc # "cancelled"
  /\ Runnable(ping_loop)
  /\ LET r == ping_loop_step(ping_loop, _transport)
     IN  /\ r.ping => Pings(sent) < MaxPings
         /\ ping_loop' = r.task
         /\ sent' = IF r.ping THEN Append(sent, "ping") ELSE sent
         /\ latePings' = IF r.ping /\ peer = "closed" /\ latePings < MaxPings
                         THEN latePings + 1 ELSE latePings
  /\ UNCHANGED <<decoder_vars, wire_vars>>
  /\ UNCHANGED <<config_vars, pc, sleepTimer, listener_vars, stale, peer,
                 transports, tasks, lastMsg, attempts, elapsed, ended>>

\* the _ping_loop of an earlier listener runs, on that listener's transport
StalePingLoop ==
  /\ pc # "cancelled"
  /\ \E task \in stale :
       /\ Runnable(task)
       /\ LET r == ping_loop_step(task, Some("transport"))
          IN  /\ stale' = (stale \ {task})
                            \cup (IF Live(r.task) THEN {r.task} ELSE {})
              /\ latePings' = IF r.ping /\ latePings < MaxPings
                              THEN latePings + 1 ELSE latePings
  /\ UNCHANGED <<decoder_vars, wire_vars>>
  /\ UNCHANGED <<config_vars, pc, sleepTimer, listener_vars, ping_loop, peer,
                 transports, sent, tasks, lastMsg, attempts,
                 elapsed, ended>>

(***************************************************************************)
(* Match and dispatch: the frame handler and the _execute_buy tasks.       *)
(***************************************************************************)
\* "await self._execute_buy(mint, symbol)" in the place of create_task
create_task_awaited(buy) ==
  [mint |-> buy.mint, symbol |-> buy.symbol, state |-> "created",
   awaited |-> TRUE, amount |-> None]

\* self._loop.create_task(self._execute_buy(mint, symbol)): the task is
\* scheduled and nothing waits for it
create_task(buy) ==
  [mint |-> buy.mint, symbol |-> buy.symbol, state |-> "created",
   awaited |-> FALSE, amount |-> None]

Finished(task) == task.state \in {"done", "failed", "cancelled"}

\* the frame handler is suspended on a task it awaits
HandlerSuspended ==
  \E k \in 1..Len(tasks) : tasks[k].awaited /\ ~Finished(tasks[k])

\* the new tasks put in front of the earlier ones
create_tasks_newest_first(ts, buys) ==
  [k \in 1..Len(buys) |-> create_task(buys[k])] \o ts

RECURSIVE create_tasks(_, _)
create_tasks(ts, buys) ==
  IF buys = << >> THEN ts
  ELSE create_tasks(Append(ts, create_task(Head(buys))), Tail(buys))

\* on_ws_frame(transport, frame i): the tasks it creates, and what it did
frame_handled(i, fault) ==
  \E r \in {FrameOutcome[i, _monitored_symbols, fault]} :
    /\ Len(tasks) + Len(r.buys) <= MaxTrades
    /\ tasks' = create_tasks(tasks, r.buys)
    /\ lastMsg' = [frame |-> i, how |-> r.how, decoded |-> r.decoded,
                   buys |-> r.buys, escaped |-> r.escaped]

\* the transport delivers frame i to on_ws_frame; fault: create_task raises
OnWsFrame(i, fault) ==
  /\ pc # "cancelled"
  /\ peer = "open"
  /\ ~HandlerSuspended
  /\ frame_handled(i, fault)
  /\ UNCHANGED <<decoder_vars, wire_vars>>
  /\ UNCHANGED <<config_vars, conn_vars, history_vars>>

\* _execute_buy / buy_token: the request is posted, then it succeeds or
\* fails (an error response, or an exception buy_token does not catch)
\* TradeRequest(..., amount=config.BUY_AMOUNT_SOL, ...)
request_amount(buy_amounts, symbol) == BUY_AMOUNT_SOL

buy_token_step(task, buy_amounts, outcome) ==
  IF task.state = "created"
  THEN [task EXCEPT !.state = "posting",
                    !.amount = Some(request_amount(buy_amounts, task.symbol))]
  ELSE [task EXCEPT !.state = outcome]

TradeStep ==
  /\ pc # "cancelled"
  /\ \E k \in 1..Len(tasks), outcome \in {"done", "failed"} :
       /\ tasks[k].state \in {"created", "posting"}
       /\ tasks' = [tasks EXCEPT ![k] =
                            buy_token_step(@, _runtime_buy_amounts, outcome)]
  /\ UNCHANGED <<decoder_vars, wire_vars>>
  /\ UNCHANGED <<config_vars, conn_vars, lastMsg, history_vars>>

\* the event loop drops a finished task; nothing else refers to it
Reap ==
  /\ \E k \in 1..Len(tasks) :
       /\ Finished(tasks[k])
       /\ tasks' = SubSeq(tasks, 1, k - 1) \o SubSeq(tasks, k + 1, Len(tasks))
  /\ UNCHANGED <<decoder_vars, wire_vars>>
  /\ UNCHANGED <<config_vars, conn_vars, lastMsg, history_vars>>

(***************************************************************************)
(* Time and cancellation.                                                  *)
(***************************************************************************)
Dec(n) == IF n > 0 THEN n - 1 ELSE 0

TickTask(task) ==
  IF task.state = "sleeping" THEN [task EXCEPT !.timer = Dec(@)] ELSE task

\* one second passes
Tick ==
  /\ pc # "cancelled"
  /\ sleepTimer' = IF pc = "sleeping" THEN Dec(sleepTimer) ELSE sleepTimer
  /\ ping_loop' = TickTask(ping_loop)
  /\ stale' = {TickTask(task) : task \in stale}
  /\ elapsed' = IF ended /\ elapsed < RECONNECT_DELAY THEN elapsed + 1
                ELSE elapsed
  /\ <<sleepTimer', ping_loop', stale', elapsed'>>
       # <<sleepTimer, ping_loop, stale, elapsed>>
  /\ UNCHANGED <<decoder_vars, wire_vars>>
  /\ UNCHANGED <<config_vars, pc, listener_vars, peer, transports, sent,
                 tasks, lastMsg, latePings, attempts, ended>>

\* a shutdown that cancels the main task and leaves every other task as
\* it is
Cancel_main_task_only ==
  /\ pc \in {"loop", "connecting", "waiting", "sleeping"}
  /\ pc' = "cancelled"
  /\ peer' = IF peer \in {"handshaking", "open"} THEN "closed" ELSE peer
  /\ transports' = 0
  /\ sleepTimer' = 0
  /\ UNCHANGED <<decoder_vars, wire_vars>>
  /\ UNCHANGED <<config_vars, listener_vars, ping_loop, stale, tasks, sent,
                 lastMsg, history_vars>>

\* asyncio.run cancels the main task (KeyboardInterrupt), then every task
\* that is left, and closes the loop
Cancel ==
  /\ pc \in {"loop", "connecting", "waiting", "sleeping"}
  /\ pc' = "cancelled"
  /\ ping_loop' = IF Live(ping_loop) THEN [state |-> "done", timer |-> 0]
                  ELSE ping_loop
  /\ stale' = {}
  /\ tasks' = [k \in 1..Len(tasks) |->
                 IF Finished(tasks[k]) THEN tasks[k]
                 ELSE [tasks[k] EXCEPT !.state = "cancelled"]]
  /\ peer' = IF peer \in {"handshaking", "open"} THEN "closed" ELSE peer
  /\ transports' = 0
  /\ sleepTimer' = 0
  /\ UNCHANGED <<decoder_vars, wire_vars>>
  /\ UNCHANGED <<config_vars, listener_vars, sent, lastMsg, history_vars>>

(***************************************************************************)
(* One connection frame by frame: the peer's frames arrive in order and    *)
(* the transport gives each to the listener's callback as it arrives.      *)
(***************************************************************************)
\* the payloads of the peer's pings: b"" and two bytes
PingPayloads == {<< >>, <<1, 2>>}

\* the notifications and the confirmation the peer sends between pings
WireFrames == {1, 3, 5, 6}

\* what arrives: a PING with its payload, or frame i of Inbound
Arrivals ==
  {[msg_type |-> "PING", id |-> 0, data |-> d] : d \in PingPayloads}
    \cup {[msg_type |-> Inbound[i].msg_type, id |-> i, data |-> << >>] :
            i \in WireFrames}

\* a frame of the peer arrives on the open transport
PeerSend ==
  /\ pc # "cancelled"
  /\ peer = "open"
  /\ Len(inbox) < MaxInbox
  /\ \E frame \in Arrivals : inbox' = Append(inbox, frame)
  /\ UNCHANGED <<config_vars, conn_vars, tasks, lastMsg, history_vars,
                 decoder_vars, handled, pongs>>

\* a pong that carries nothing
on_ws_ping_empty(out, data) == Append(out, << >>)

\* on_ws_ping: transport.send_pong(data)
on_ws_ping(out, data) == Append(out, data)

\* the transport gives the next frame that arrived to the listener: a ping
\* to on_ws_ping, any other frame to on_ws_frame
Deliver ==
  /\ pc # "cancelled"
  /\ peer = "open"
  /\ ~HandlerSuspended
  /\ handled < Len(inbox)
  /\ handled' = handled + 1
  /\ \E frame \in {inbox[handled + 1]} :
       IF frame.msg_type = "PING"
       THEN /\ pongs' = on_ws_ping(pongs, frame.data)
            /\ UNCHANGED <<tasks, lastMsg>>
       ELSE /\ frame_handled(frame.id, FALSE)
            /\ UNCHANGED pongs
  /\ UNCHANGED <<config_vars, conn_vars, history_vars, decoder_vars, inbox>>

(***************************************************************************)
(* The decoder and the key encoder on inputs of their own.                 *)
(***************************************************************************)
\* a buffer or a key is given, nothing has been computed
DecodeInit ==
  /\ ProcessInit({})
  /\ decode_result = None
  /\ pubkey_text = None
  /\ pubkey_optimized = None
  /\ \/ /\ buffer \in {Some(b) : b \in Buffers}
        /\ pubkey_bytes = None
     \/ /\ buffer = None
        /\ pubkey_bytes \in {Some(k) : k \in Keys}

\* the body of the loop of _decode_create_event on the decoded bytes
DecodeBuffer ==
  /\ buffer # None
  /\ decode_result = None
  /\ decode_result'
       = Some(decode_data([err |-> FALSE, data |-> Value(buffer)]))
  /\ UNCHANGED <<config_vars, conn_vars, tasks, lastMsg, history_vars,
                 wire_vars, buffer, pubkey_bytes, pubkey_text,
                 pubkey_optimized>>

\* _bytes_to_pubkey on a key
EncodeKey ==
  /\ pubkey_bytes # None
  /\ pubkey_text = None
  /\ pubkey_text' = Some(_bytes_to_pubkey(Value(pubkey_bytes)))
  /\ UNCHANGED <<config_vars, conn_vars, tasks, lastMsg, history_vars,
                 wire_vars, buffer, decode_result, pubkey_bytes,
                 pubkey_optimized>>

\* bytes_to_pubkey_optimized on a key
EncodeKeyOptimized ==
  /\ pubkey_bytes # None
  /\ pubkey_optimized = None
  /\ pubkey_optimized' = Some(bytes_to_pubkey_optimized(Value(pubkey_bytes)))
  /\ UNCHANGED <<config_vars, conn_vars, tasks, lastMsg, history_vars,
                 wire_vars, buffer, decode_result, pubkey_bytes,
                 pubkey_text>>

(***************************************************************************)
(* The specifications.                                                     *)
(***************************************************************************)
RunLoop ==
  \/ StartConnect
  \/ ConnectFail
  \/ on_ws_connected
  \/ ConnectReturns
  \/ Wake
  \/ SleepDone

Next ==
  \/ \E symbols \in CliValues : async_main(symbols, NoAmounts)
  \/ RunLoop
  \/ on_ws_closed
  \/ PingLoop
  \/ StalePingLoop
  \/ \E i \in RunFrames, fault \in BOOLEAN : OnWsFrame(i, fault)
  \/ TradeStep
  \/ Reap
  \/ Tick
  \/ Cancel

Spec == Init /\ [][Next]_vars

\* the connection under fairness: the run loop, the transport, the keepalive
\* tasks, the clock, cancellation, and frames whose handling raises or
\* dispatches nothing.  The trades are left to Spec, where no step of a trade
\* changes a variable of the connection.
LiveNext ==
  \/ \E symbols \in CliValues : async_main(symbols, NoAmounts)
  \/ RunLoop
  \/ on_ws_closed
  \/ PingLoop
  \/ StalePingLoop
  \/ \E i \in RunFrames : OnWsFrame(i, TRUE)
  \/ Tick
  \/ Cancel

\* the run loop and the clock make progress; cancellation, closure and
\* frames may or may not happen
FairSpec ==
  /\ Init
  /\ [][LiveNext]_vars
  /\ WF_vars(\E symbols \in CliValues : async_main(symbols, NoAmounts))
  /\ WF_vars(RunLoop)
  /\ WF_vars(Tick)

\* a run without faults in which the peer sends every frame
MsgNext ==
  \/ \E run \in CliRuns : async_main(run.symbols, run.amounts)
  \/ StartConnect
  \/ on_ws_connected
  \/ ConnectReturns
  \/ \E i \in FrameIds : OnWsFrame(i, FALSE)
  \/ TradeStep
  \/ Reap

MsgSpec == MsgInit /\ [][MsgNext]_vars

\* one connection whose frames and pings arrive and are handled in turn
WireNext ==
  \/ \E run \in CliRuns : async_main(run.symbols, run.amounts)
  \/ StartConnect
  \/ on_ws_connected
  \/ ConnectReturns
  \/ PeerSend
  \/ Deliver

WireSpec == MsgInit /\ [][WireNext]_vars

\* the decoder and the key encoder, each applied to every input
DecodeNext ==
  \/ DecodeBuffer
  \/ EncodeKey
  \/ EncodeKeyOptimized

DecodeSpec == DecodeInit /\ [][DecodeNext]_vars

(***************************************************************************)
(* The properties.                                                         *)
(***************************************************************************)
\* the places run_websocket can be at; "cancelled" is the external
\* cancellation, anything else would be an end of its own
InRunLoop ==
  pc \in {"main", "loop", "connecting", "waiting", "sleeping", "cancelled"}

\* C1: run_websocket never terminates by itself, and once a connection
\* attempt has failed or an established connection has closed, a new
\* connection attempt is eventually made unless the task is cancelled.
C1_ReconnectsForever ==
  /\ []InRunLoop
  /\ (ended /\ attempts = 0) ~> (attempts > 0 \/ pc = "cancelled")

\* a new attempt is under way after an earlier attempt or connection ended
C1_Witness == ended /\ attempts = 1 /\ peer = "handshaking"

\* C2: each closure is followed by exactly one connection attempt, made only
\* after the fixed delay; at no time is there more than one active transport.
C2_OneReconnectAfterDelay ==
  /\ [](transports <= 1 /\ attempts <= 1)
  /\ [][attempts' > attempts => (~ended \/ elapsed >= RECONNECT_DELAY)]_vars

\* the one attempt after a closure, with the ping task of the closed
\* connection still to be run
C2_Witness ==
  /\ ended
  /\ attempts = 1
  /\ transports = 1
  /\ elapsed >= RECONNECT_DELAY
  /\ stale # {}

\* C3: once on_ws_closed has been handled no ping is sent on that
\* connection, however the ping timer and the closure interleave: the ping
\* task of a closed connection is cancelled or finished.
C3_NoPingAfterClose ==
  /\ latePings = 0
  /\ disconnected => ping_loop.state \in {"cancelling", "done"}
  /\ \A task \in stale : task.state = "cancelling"

\* a connection that pinged, was closed, and whose ping task has ended
C3_Witness ==
  /\ peer = "closed"
  /\ Pings(sent) = MaxPings
  /\ ping_loop.state = "done"

\* the base58 text of the all-zero key
ZeroKeyText == [k \in 1..PUBKEY_SIZE |-> 49]

\* C4: a notification whose earlier log lines are unprefixed, not base64,
\* too short, of another discriminator or truncated, and whose last line is
\* a valid event of a watched symbol, dispatches exactly once, for that
\* line's event; no notification dispatches more than once.
C4_LaterValidLineDispatchesOnce ==
  /\ Len(lastMsg.buys) <= 1
  /\ (lastMsg.frame = 1 /\ PEPE \in _monitored_symbols)
       => lastMsg.buys = <<[mint |-> ZeroKeyText, symbol |-> pepe]>>

\* the notification with five undecodable lines was handled and its one
\* trade task is there
C4_Witness ==
  /\ lastMsg.frame = 1
  /\ lastMsg.how = "matched"
  /\ Len(tasks) = 1
  /\ tasks[1].mint = ZeroKeyText

\* the upper-cased symbol of the first decodable event of each notification
FirstSymbolUpper == (1 :> PEPE) @@ (4 :> PEPE2) @@ (5 :> DOGE) @@ (6 :> PEPE)

\* C5: a decoded event is dispatched if and only if its upper-cased symbol
\* is in the watch set: "pepe" with {"PEPE"} is, "PEPE2" with {"PEPE"} is
\* not, and nothing is with the empty watch set.
C5_DispatchIffWatched ==
  /\ lastMsg.frame \in DOMAIN FirstSymbolUpper
       => (lastMsg.buys # << >>
             <=> FirstSymbolUpper[lastMsg.frame] \in _monitored_symbols)
  /\ _monitored_symbols = {} => lastMsg.buys = << >>

\* "PEPE2" is passed over by the listener that dispatched "pepe" before
C5_Witness ==
  /\ _monitored_symbols = {PEPE}
  /\ lastMsg.frame = 4
  /\ lastMsg.how = "not_monitored"
  /\ Len(tasks) = 1
  /\ tasks[1].symbol = pepe

\* C6: when runtime symbols have been set, the watch set of the listener
\* that run_websocket constructs is the one get_monitored_symbols() returns.
C6_ListenerUsesRuntimeSymbols ==
  (pc \in {"connecting", "waiting"} /\ _runtime_symbols # None)
    => _monitored_symbols
         = get_monitored_symbols(_runtime_symbols, MONITORED_SYMBOLS)

\* C7: a notification whose "err" is not null goes through no event
\* decoding and no dispatch, even if its logs hold a valid matching event.
C7_FailedTransactionIgnored ==
  (lastMsg.frame \in {i \in FrameIds :
                        /\ Inbound[i].msg_type = "TEXT"
                        /\ Inbound[i].payload.valid
                        /\ Inbound[i].payload.params # None
                        /\ Value(Inbound[i].payload.params).err # None})
    => (~lastMsg.decoded /\ lastMsg.buys = << >>)

\* the failed transaction that carries a valid "pepe" event, at a listener
\* that watches PEPE
C7_Witness ==
  /\ lastMsg.frame = 2
  /\ lastMsg.how = "tx_error"
  /\ PEPE \in _monitored_symbols

\* C8: the message handler returns without waiting for the trade it has
\* dispatched (the next frame can be handled while trades are in flight),
\* and no step of a trade, whatever its outcome, changes the connection.
C8_TradeDoesNotBlock ==
  /\ []((peer = "open" /\ pc # "cancelled")
          => /\ ENABLED OnWsFrame(3, FALSE)
             /\ Len(tasks) < MaxTrades => ENABLED OnWsFrame(1, FALSE))
  /\ [][TradeStep => UNCHANGED conn_vars]_vars

\* a frame was handled while one trade had failed and another is in flight
C8_Witness ==
  /\ peer = "open"
  /\ Len(tasks) = 2
  /\ tasks[1].state = "failed"
  /\ tasks[2].state = "posting"
  /\ lastMsg.how = "subscription_confirmed"

\* a frame was handled in which an exception was raised
HandlerRaised ==
  /\ lastMsg' # lastMsg
  /\ lastMsg'.how \in {"raised", "error_logged"}

\* C9 as stated: an exception raised while a message is handled is caught,
\* logged and treated as a transition to Disconnected.
C9_ExceptionDisconnects ==
  [][HandlerRaised
       => (lastMsg'.how = "error_logged" /\ ~lastMsg'.escaped
             /\ disconnected')]_vars

\* C9: an exception raised while a message is handled is caught and logged
\* by the frame handler and never leaves it; the connection stays as it is
\* (no transition to Disconnected, no reconnect) and no trade is dispatched.
C9_ExceptionCaughtAndLogged ==
  [][HandlerRaised
       => (lastMsg'.how = "error_logged" /\ ~lastMsg'.escaped
             /\ UNCHANGED <<conn_vars, tasks>>)]_vars

\* the exception was logged and the listener is still connected
C9_Witness ==
  /\ lastMsg.how = "error_logged"
  /\ peer = "open"
  /\ pc = "waiting"
  /\ ~disconnected

\* C10: each successful connect sends exactly one subscription request,
\* before any ping on that connection; a failed connect sends none.
C10_OneSubscriptionPerConnect ==
  /\ _transport = None => sent = << >>
  /\ _transport # None
       => /\ sent # << >>
          /\ Head(sent) = "subscribe"
          /\ Len(SelectSeq(sent, LAMBDA m : m = "subscribe")) = 1

\* a connection made after an earlier one ended has subscribed, then pinged
C10_Witness ==
  /\ ended
  /\ peer = "open"
  /\ Len(sent) > 1
  /\ Pings(sent) = Len(sent) - 1

\* the envelope variant behind each way out of the handler
Envelope(how) ==
  CASE how = "subscription_confirmed" -> "SubscriptionAck"
    [] how \in {"non_parseable", "no_params"} -> "Unrecognized"
    [] how \in {"tx_error", "no_event", "not_monitored", "matched"}
         -> "Notification"
    [] OTHER -> "none"

\* the variant each text payload of Inbound is, read off the payload
ExpectedEnvelope ==
  [i \in {1, 2, 4, 5, 6, 7, 15, 18, 19} |-> "Notification"]
    @@ [i \in {3, 16} |-> "SubscriptionAck"]
    @@ [i \in {8, 9, 11, 12, 13, 14, 17} |-> "Unrecognized"]

\* C11: every inbound text payload is exactly one of SubscriptionAck,
\* Notification and Unrecognized; text that is not JSON and documents with
\* missing nested fields are Unrecognized (a meta without logMessages gives
\* a Notification with no log line); an Unrecognized payload or a
\* SubscriptionAck is neither decoded nor dispatched, nothing leaves the
\* handler as an exception, and the connection is left as it was.
C11_EnvelopeClassified ==
  /\ [](lastMsg.frame \in DOMAIN ExpectedEnvelope
          => /\ Envelope(lastMsg.how) = ExpectedEnvelope[lastMsg.frame]
             /\ ~lastMsg.escaped
             /\ Envelope(lastMsg.how) # "Notification"
                  => (~lastMsg.decoded /\ lastMsg.buys = << >>)
             /\ lastMsg.frame \in {7, 15}
                  => (lastMsg.how = "no_event" /\ lastMsg.buys = << >>))
  /\ [][(lastMsg' # lastMsg /\ Envelope(lastMsg'.how) # "Notification")
          => UNCHANGED <<conn_vars, tasks>>]_vars

\* a notification without its signature, with a valid watched event in its
\* logs, was dropped by a listener that has dispatched before
C11_Witness ==
  /\ lastMsg.frame = 11
  /\ lastMsg.how = "non_parseable"
  /\ PEPE \in _monitored_symbols
  /\ Len(tasks) = 1

\* the size of the smallest well-formed event: the discriminator, three
\* empty length-prefixed strings and three keys
MinViableSize == Len(CREATE_EVENT_DISCRIMINATOR) + 3 * 4 + 3 * PUBKEY_SIZE

\* C12: decode returns NotThisEvent for every buffer shorter than the
\* minimum viable size (discriminator, three empty strings, three keys) and
\* for every buffer whose first 8 bytes are not the discriminator.
C12_ShortOrForeignIsNotThisEvent ==
  (/\ buffer # None
   /\ decode_result # None
   /\ \/ Len(Value(buffer)) < MinViableSize
      \/ Slice(Value(buffer), 0, 8) # CREATE_EVENT_DISCRIMINATOR)
    => Value(decode_result).kind = "NotThisEvent"

\* buffers that pass the size check and the discriminator check and are
\* not an event: a well-formed event cut short, or a string that declares
\* more than 1000 bytes
MalformedBuffers ==
  {b \in ProperPrefixes : Len(b) >= MIN_EVENT_SIZE} \cup OverlongBuffers

Base58Text ==
  (CountKey :>
     <<52, 119, 66, 113, 112, 90, 77, 57, 120, 97, 83, 104, 101, 90, 122,
       74, 83, 77, 97, 119, 85, 75, 75, 119, 104, 100, 112, 67, 104, 75, 98,
       90, 53, 101, 117, 53, 107, 121, 52, 86, 105, 103, 119>>)
  @@ (OnesKey :>
     <<74, 69, 75, 78, 86, 110, 107, 98, 111, 51, 106, 109, 97, 53, 110, 82,
       69, 66, 66, 74, 67, 68, 111, 88, 70, 86, 101, 75, 107, 68, 53, 54, 86,
       51, 120, 75, 114, 118, 82, 109, 87, 120, 70, 71>>)
  @@ (MixedKey :>
     <<49, 49, 80, 77, 107, 103, 117, 115, 118, 49, 86, 50, 76, 89, 68, 107,
       97, 116, 86, 122, 83, 54, 71, 75, 102, 103, 50, 77, 53, 112, 83, 113,
       78, 80, 67, 69, 69, 80, 77, 97, 81, 101, 84>>)

\* C14: every well-formed buffer (discriminator, three length-prefixed
\* strings, three keys, then any trailing bytes) decodes to an event with
\* the strings verbatim as name, symbol and uri and the keys as mint,
\* bonding curve and creator, in that order; the trailing bytes are not
\* read and change nothing.
C14_WellFormedDecodes ==
  \A t \in WellFormedInputs :
    (buffer = Some(WellFormed[t]) /\ decode_result # None)
      => Value(decode_result)
           = [kind |-> "Event", name |-> t.name, symbol |-> t.symbol,
              uri |-> t.uri, mint |-> Base58Text[t.keys[1]],
              bonding_curve |-> Base58Text[t.keys[2]],
              user |-> Base58Text[t.keys[3]],
              read |-> Len(WellFormed[t]) - Len(t.trailing)]

\* "Token", "TKN", "https://x" and three distinct keys, followed by the
\* bytes of one more string, have been decoded
C14_Witness ==
  /\ buffer
       = Some(CreateEventBytes(TokenName, TKN, TokenUri, CountKey, OnesKey,
                               MixedKey, BorshString(TKN)))
  /\ decode_result # None
  /\ Value(decode_result).kind = "Event"
  /\ Value(decode_result).symbol = TKN

\* A reference Base58 decoder: the text is a number in base 58, most
\* significant digit first, held in PUBKEY_SIZE bytes; the result is one
\* zero byte per leading "1" followed by the bytes of the number without
\* its leading zero bytes.
Base58Digit(c) == (CHOOSE i \in 1..Len(alphabet) : alphabet[i] = c) - 1

\* num * 58 + carry, from the last byte (i = Len(num)) to the first
RECURSIVE Base58MulAdd(_, _, _, _)
Base58MulAdd(num, i, carry, done) ==
  IF i = 0 THEN done
  ELSE LET cur == num[i] * 58 + carry
       IN  Base58MulAdd(num, i - 1, cur \div 256, <<cur % 256>> \o done)

RECURSIVE Base58Number(_, _, _)
Base58Number(text, i, num) ==
  IF num = << >> \/ i > Len(text) THEN num
  ELSE Base58Number(text, i + 1,
                    Base58MulAdd(num, Len(num), Base58Digit(text[i]), << >>))

\* the number of leading elements of s equal to c
LeadingCount(s, c) ==
  Cardinality({i \in 1..Len(s) : \A j \in 1..i : s[j] = c})

Base58Decode(text) ==
  LET num == Base58Number(text, 1, [i \in 1..PUBKEY_SIZE |-> 0])
  IN  [i \in 1..LeadingCount(text, 49) |-> 0]
        \o SubSeq(num, LeadingCount(num, 0) + 1, Len(num))

\* C15: the Base58 text of every 32-byte key decodes with the reference
\* decoder back to the key (one "1" per leading zero byte, most significant
\* digit first), and the all-zero key is encoded as 32 times "1".
C15_Base58RoundTrip ==
  (pubkey_bytes # None /\ pubkey_text # None)
    => /\ \A i \in 1..Len(Value(pubkey_text)) :
            \E j \in 1..Len(alphabet) : alphabet[j] = Value(pubkey_text)[i]
       /\ Base58Decode(Value(pubkey_text)) = Value(pubkey_bytes)
       /\ Value(pubkey_bytes) = ZeroKey => Value(pubkey_text) = ZeroKeyText

\* a key of five zero bytes and 27 others has been encoded, with five "1"
C15_Witness ==
  /\ pubkey_bytes = Some(LeadingZeroKey(5))
  /\ pubkey_text # None
  /\ LeadingCount(Value(pubkey_text), 49) = 5


\* C16: the trade request posted for a match on a symbol carries
\* get_buy_amount_for_symbol(symbol): the configured amount where one was
\* set, the default otherwise.
C16_RequestCarriesConfiguredAmount ==
  \A k \in 1..Len(tasks) :
    tasks[k].amount # None
      => Value(tasks[k].amount)
           = get_buy_amount_for_symbol(_runtime_buy_amounts, tasks[k].symbol)

\* a request was posted for a symbol that has a configured amount
C16_Witness ==
  \E k \in 1..Len(tasks) :
    /\ tasks[k].amount # None
    /\ \E p \in _runtime_buy_amounts : p[1] = upper(tasks[k].symbol)


\* the payloads of the pings among the first n frames that arrived
RECURSIVE PingsAmong(_, _)
PingsAmong(frames, n) ==
  IF n = 0 THEN << >>
  ELSE IF frames[n].msg_type = "PING"
  THEN Append(PingsAmong(frames, n - 1), frames[n].data)
  ELSE PingsAmong(frames, n - 1)

Uncancelled(task) == task.state \in {"created", "sleeping"}

\* C19: the only keepalive task that has not been cancelled is the one of
\* the open connection; every task of an earlier connection has been
\* cancelled; and a task is cancelled in the step that closes its
\* connection, never otherwise.
C19_OneKeepaliveTask ==
  /\ [](/\ \A task \in stale : ~Uncancelled(task)
        /\ Uncancelled(ping_loop) => (peer = "open" /\ _ping_task # None)
        /\ (peer = "open" /\ pc # "cancelled") => Uncancelled(ping_loop))
  /\ [][(Uncancelled(ping_loop) /\ ~Uncancelled(ping_loop'))
          => (peer = "open" /\ peer' = "closed")]_vars

\* a reconnect after a closure: the new connection's keepalive task runs
\* while the cancelled task of the earlier one has not yet ended
C19_Witness ==
  /\ peer = "open"
  /\ ping_loop.state = "sleeping"
  /\ Pings(sent) > 0
  /\ stale # {}


\* the _execute_buy calls that the first n frames that arrived ask for, frame
\* by frame in the order of arrival
RECURSIVE BuysAmong(_, _, _)
BuysAmong(frames, n, monitored_symbols) ==
  IF n = 0 THEN << >>
  ELSE BuysAmong(frames, n - 1, monitored_symbols)
         \o (IF frames[n].msg_type = "PING" THEN << >>
             ELSE FrameOutcome[frames[n].id, monitored_symbols, FALSE].buys)

OnesKeyText == _bytes_to_pubkey(OnesKey)

\* C20: the trade tasks stand in the order in which the frames of their
\* transactions arrived on the connection, one task per matching frame
\* handled and none for a frame not yet handled; the frame last handled is
\* the latest of the handled ones; and within a transaction the event of
\* the earlier log line is the one dispatched.
C20_TasksInArrivalOrder ==
  peer = "open"
    => /\ [k \in 1..Len(tasks) |->
             [mint |-> tasks[k].mint, symbol |-> tasks[k].symbol]]
            = BuysAmong(inbox, handled, _monitored_symbols)
       /\ (handled > 0 /\ inbox[handled].msg_type # "PING")
            => lastMsg.frame = inbox[handled].id
       /\ (lastMsg.frame = 6 /\ lastMsg.buys # << >>)
            => lastMsg.buys[1].mint = OnesKeyText

\* frame 6 arrived before frame 1, both matched, and their two tasks exist
C20_Witness ==
  /\ peer = "open"
  /\ Len(tasks) = 2
  /\ tasks[1].mint = OnesKeyText
  /\ tasks[2].mint = ZeroKeyText
  /\ \E a, b \in 1..handled :
       a < b /\ inbox[a].id = 6 /\ inbox[b].id = 1


\* the log lines of the notification with two valid events, "DOGE" then "pepe"
TwoEventLogs == Value(Value(Inbound[5].payload.params).logMessages)

\* what its lines after the first decode to, when scanned on their own
LaterEvent == _decode_create_event(Tail(TwoEventLogs))

\* what its first line decodes to
FirstEvent == decode_log(Head(TwoEventLogs))

\* C21: only the first decodable event of a transaction is matched: when it
\* is not watched nothing is dispatched, although a later log line of the
\* same transaction decodes to an event whose symbol is watched; and a
\* dispatch is always for the first decodable event.
C21_OnlyFirstDecodableEventMatched ==
  /\ (/\ lastMsg.frame = 5
      /\ FirstEvent.kind = "Event"
      /\ upper(FirstEvent.symbol) \notin _monitored_symbols
      /\ LaterEvent.kind = "Event"
      /\ upper(LaterEvent.symbol) \in _monitored_symbols)
       => /\ lastMsg.buys = << >>
          /\ lastMsg.how = "not_monitored"
  /\ (lastMsg.frame = 5 /\ lastMsg.buys # << >>)
       => lastMsg.buys = <<[mint |-> FirstEvent.mint,
                            symbol |-> FirstEvent.symbol]>>

\* the listener that watches only "PEPE" was given the transaction whose
\* first event is "DOGE" and whose second is "pepe", and skipped it
C21_Witness ==
  /\ lastMsg.frame = 5
  /\ _monitored_symbols = {PEPE}
  /\ FirstEvent.symbol = DOGE
  /\ LaterEvent.symbol = pepe
  /\ lastMsg.how = "not_monitored"
  /\ lastMsg.decoded


\* a trade task that has been created and has not finished
InFlight(task) == task.state \in {"created", "posting"}

\* C22: no step changes both a trade task and the connection: the closure,
\* the wait, the sleep, the reconnect, a connect failure and the keepalive
\* tasks leave every trade task as it is, and a step of a trade task leaves
\* the transport, the keepalive tasks, the disconnected flag, the run loop
\* and the configuration as they are; and while the run is not cancelled a
\* trade task in flight can take its next step whatever has become of the
\* connection it was created on.
C22_TradeIndependentOfConnection ==
  /\ [][(tasks' # tasks /\ pc' # "cancelled")
          => UNCHANGED <<conn_vars, history_vars, config_vars>>]_vars
  /\ []((pc # "cancelled" /\ \E k \in 1..Len(tasks) : InFlight(tasks[k]))
          => ENABLED TradeStep)

\* a trade posted on an earlier connection is still in flight while the next
\* connection is being made
C22_Witness ==
  /\ pc = "connecting"
  /\ peer = "handshaking"
  /\ ended
  /\ \E k \in 1..Len(tasks) : tasks[k].state = "posting"
  /\ \E k \in 1..Len(tasks) : tasks[k].state = "done"


\* C23: for every 32-byte key bytes_to_pubkey_optimized returns the text
\* that _bytes_to_pubkey returns.
C23_OptimizedAgrees ==
  (pubkey_text # None /\ pubkey_optimized # None)
    => Value(pubkey_optimized) = Value(pubkey_text)

\* both encoders have been applied to a key whose first bytes are not zero
C23_Witness ==
  /\ pubkey_bytes = Some(OnesKey)
  /\ pubkey_text # None
  /\ pubkey_optimized # None

=============================================================================
